---- MODULE Spec2Model ----
(***************************************************************************)
(* Model of the snake game's grid model and autopilot pathfinder.          *)
(*                                                                         *)
(*   src/src/path.rs   solve (A* search), lowest_f, generate_successors,   *)
(*                     generate_path, get_direction, manhatten_distance    *)
(*   src/src/game.rs   next_point, generate_successors (grid neighbours)   *)
(*   src/src/types.rs  Tile, Direction, Direction::opposite                *)
(*   src/src/snake.rs  run (the event loop), the set-up of a round         *)
(*   src/src/input.rs  the input thread and the tick thread                *)
(*                                                                         *)
(* A grid is indexed grid[x][y] as in the source, 0-based.  Vectors are    *)
(* TLA+ sequences, so a Rust index i is the sequence index i + 1.          *)
(***************************************************************************)
EXTENDS Integers, Sequences, FiniteSets, TLC

VARIABLES
    grid,          \* the tile field handed to solve: grid[x][y]
    start,         \* (start_x, start_y)
    target,        \* (target_x, target_y) as returned by find_target
    cell_details,  \* HashMap<Point, CellInfo>
    open_list,     \* Vec<(usize, usize)>
    closed_list,   \* Vec<Vec<bool>>
    pc,            \* position inside solve: "loop", "path", "done" (returned),
                   \* "hang" (generate_path's loop never ends); "grid" outside it;
                   \* "turn" and "reverse" for a walk of two steps;
                   \* "setup" before run sets a round up, "recv" when the
                   \* event loop waits for a message, "exit" after it broke
                   \* out, "panic" after unreachable!()
    cursor,        \* the last (x, y) of generate_path's loop
    result,        \* the Vec<Direction> solve returned
    popped,        \* history: the points removed from open_list, in order
    prev,          \* history: what the previous call on the same input returned
    point,         \* the point handed to the grid model's generate_successors
    successors,    \* what it returned
    snake,         \* VecDeque<Point>, the head in front
    food,          \* the point spawn_food returned
    direction,     \* run's `direction`
    path,          \* run's `path`, the cached result of the pathfinder
    end,           \* run's `end`
    paused,        \* run's `paused`
    steps,         \* run's `steps`
    config,        \* the Config run was started with
    last,          \* history: what the event loop did with the last message
    interval       \* the tick interval in milliseconds (AtomicU16, snake.rs 32)

searchVars == <<start, target, cell_details, open_list, closed_list, cursor, result,
                popped, prev, point, successors>>

gameVars == <<snake, food, direction, path, end, paused, steps, config, last,
              interval>>

vars == <<grid, start, target, cell_details, open_list, closed_list, pc, cursor,
          result, popped, prev, point, successors, snake, food, direction, path, end,
          paused, steps, config, last, interval>>

\* outside the event loop: no round has been set up
NoGame ==
    /\ snake = <<>>
    /\ food = <<>>
    /\ direction = "North"
    /\ path = <<>>
    /\ end = FALSE
    /\ paused = FALSE
    /\ steps = 0
    /\ config = <<>>
    /\ last = <<>>
    /\ interval = 0

(***************************************************************************)
(* Bounds of the model.                                                    *)
(***************************************************************************)
\* side of the square grids the pathfinder is run on
GridSize == 3
\* largest number of non-traversable tiles besides the head
MaxBlocked == 2
\* largest width and height of the grids whose neighbours are enumerated
MaxSide == 5
\* largest width and height of the rectangular grids handed to solve
MaxRect == 3
\* largest number of obstacles on them
MaxRectBlocked == 1

\* most ticks of a round played by hand
MaxManualSteps == 3
\* most ticks of a round played by the autopilot on a grid without obstacles
MaxAutoSteps == 5
\* most ticks of a round played by the autopilot on a grid with obstacles
MaxObstacleSteps == 2
\* most food eaten in a round
MaxEaten == 2

\* usize::MAX, the initial value of lowest_f's running minimum (cut to the
\* checker's integer width; every recorded f is far below it)
UsizeMax == 2147483647

(***************************************************************************)
(* types.rs                                                                *)
(***************************************************************************)
Tile == {"Free", "Snake", "Food", "Obstacle", "Crash"}

Direction == {"North", "South", "West", "East"}

opposite_rotated(d) ==
    CASE d = "North" -> "East"
      [] d = "East"  -> "South"
      [] d = "South" -> "West"
      [] d = "West"  -> "North"

\* Direction::opposite
opposite(d) ==
    CASE d = "North" -> "South"
      [] d = "South" -> "North"
      [] d = "West"  -> "East"
      [] d = "East"  -> "West"

None == <<>>

Some(v) == <<v>>

Abs(i) == IF i < 0 THEN -i ELSE i

\* grid.len(): the number of columns x
GridLen(g) == Cardinality(DOMAIN g)

\* grid[0].len(): the number of rows y
GridHeight(g) == Cardinality(DOMAIN g[0])

PointsOf(g) == (0 .. GridLen(g) - 1) \X (0 .. GridHeight(g) - 1)

(***************************************************************************)
(* game.rs: the grid model                                                 *)
(***************************************************************************)
\* Returns the next point in the given direction.
next_point(p, d) ==
    LET x == p[1]
        y == p[2]
    IN  CASE d = "North" -> <<x, y - 1>>
          [] d = "South" -> <<x, y + 1>>
          [] d = "West"  -> <<x - 1, y>>
          [] d = "East"  -> <<x + 1, y>>

generate_successors_no_bound(p, g) ==
    LET x == p[1]
        y == p[2]
    IN  (IF x > 0 THEN <<next_point(p, "West")>> ELSE <<>>)
        \o <<next_point(p, "East")>>
        \o (IF y + 1 < GridHeight(g) THEN <<next_point(p, "South")>> ELSE <<>>)
        \o (IF y > 0 THEN <<next_point(p, "North")>> ELSE <<>>)

\* Generates all valid successors of a point.
generate_successors(p, g) ==
    LET x == p[1]
        y == p[2]
    IN  (IF x > 0 THEN <<next_point(p, "West")>> ELSE <<>>)
        \o (IF x + 1 < GridLen(g) THEN <<next_point(p, "East")>> ELSE <<>>)
        \o (IF y + 1 < GridHeight(g) THEN <<next_point(p, "South")>> ELSE <<>>)
        \o (IF y > 0 THEN <<next_point(p, "North")>> ELSE <<>>)

(***************************************************************************)
(* path.rs: helpers of solve                                               *)
(***************************************************************************)
CellInfoUnreached == [parent |-> None, g |-> 0, h |-> 0, f |-> UsizeMax]

\* CellInfo { ..Default::default() }
DefaultCellInfo == [parent |-> None, g |-> 0, h |-> 0, f |-> 0]

\* the first Food tile in the scan order x, then y
find_target(g) ==
    LET foods == {p \in PointsOf(g) : g[p[1]][p[2]] = "Food"}
    IN  CHOOSE p \in foods :
            \A q \in foods : p[1] < q[1] \/ (p[1] = q[1] /\ p[2] <= q[2])

RECURSIVE lowest_f_scan(_, _, _, _, _)
lowest_f_scan(list, details, n, f, i) ==
    IF n > Len(list) THEN i
    ELSE IF details[list[n]].f < f
         THEN lowest_f_scan(list, details, n + 1, details[list[n]].f, n)
         ELSE lowest_f_scan(list, details, n + 1, f, i)

RECURSIVE highest_f_scan(_, _, _, _, _)
highest_f_scan(list, details, n, f, i) ==
    IF n > Len(list) THEN i
    ELSE IF details[list[n]].f >= f
         THEN highest_f_scan(list, details, n + 1, details[list[n]].f, n)
         ELSE highest_f_scan(list, details, n + 1, f, i)

lowest_f_inverted(list, details) == highest_f_scan(list, details, 1, 0, 1)

\* index of the first entry of list whose recorded f is the lowest
lowest_f(list, details) == lowest_f_scan(list, details, 1, UsizeMax, 1)

swap_remove_nothing(list, i) == list

\* Vec::swap_remove: the last element takes the place of the removed one
swap_remove(list, i) ==
    LET n == Len(list)
    IN  [k \in 1 .. n - 1 |-> IF k = i THEN list[n] ELSE list[k]]

path_generate_successors_unfiltered(x, y, g) ==
    (IF x > 0 THEN <<(<<x - 1, y>>)>> ELSE <<>>)
    \o (IF x + 1 < GridLen(g) THEN <<(<<x + 1, y>>)>> ELSE <<>>)
    \o (IF y + 1 < GridLen(g) THEN <<(<<x, y + 1>>)>> ELSE <<>>)
    \o (IF y > 0 THEN <<(<<x, y - 1>>)>> ELSE <<>>)

\* path.rs generate_successors: the in-range neighbours that are Free or Food.
\* Both range checks compare against grid.len().
path_generate_successors(x, y, g) ==
    LET cand == (IF x > 0 THEN <<(<<x - 1, y>>)>> ELSE <<>>)
                \o (IF x + 1 < GridLen(g) THEN <<(<<x + 1, y>>)>> ELSE <<>>)
                \o (IF y + 1 < GridLen(g) THEN <<(<<x, y + 1>>)>> ELSE <<>>)
                \o (IF y > 0 THEN <<(<<x, y - 1>>)>> ELSE <<>>)
        keep(q) == g[q[1]][q[2]] = "Free" \/ g[q[1]][q[2]] = "Food"
    IN  SelectSeq(cand, keep)

get_direction_swapped(from_x, from_y, to_x, to_y) ==
    IF to_x > from_x THEN "West"
    ELSE IF to_x < from_x THEN "East"
    ELSE IF to_y > from_y THEN "South"
    ELSE "North"

get_direction(from_x, from_y, to_x, to_y) ==
    IF to_x > from_x THEN "East"
    ELSE IF to_x < from_x THEN "West"
    ELSE IF to_y > from_y THEN "South"
    ELSE "North"

manhatten_distance_saturating(x, y, target_x, target_y) ==
    (IF x > target_x THEN x - target_x ELSE 0)
        + (IF y > target_y THEN y - target_y ELSE 0)

\* i32::abs(x as i32 - target_x as i32) + i32::abs(y as i32 - target_y as i32);
\* the casts and try_into() keep the value of every operand below 2^31
manhatten_distance(x, y, target_x, target_y) ==
    Abs(x - target_x) + Abs(y - target_y)


skip_successor_unless_better(next_f, f) == next_f <= f

(***************************************************************************)
(* path.rs: solve                                                          *)
(***************************************************************************)
\* `if next_info.f < f { continue; }` (path.rs 96)
skip_successor(next_f, f) == next_f < f

\* the for loop over successors (path.rs 62-123), from its k-th element on;
\* found is the early return of line 80
RECURSIVE expand(_, _, _, _, _, _, _, _)
expand(k, succs, x, y, details, open, closed, tgt) ==
    IF k > Len(succs) THEN [cell_details |-> details, open_list |-> open, found |-> FALSE]
    ELSE
      LET next == succs[k]
          next_x == next[1]
          next_y == next[2]
      IN
      \* if the successor is already on the closed list we ignore it
      IF closed[next_x][next_y] THEN expand(k + 1, succs, x, y, details, open, closed, tgt)
      \* if successor is the target, stop search
      ELSE IF next_x = tgt[1] /\ next_y = tgt[2] THEN
          [cell_details |->
               [q \in DOMAIN details \cup {next} |->
                   IF q = next THEN [DefaultCellInfo EXCEPT !.parent = Some(<<x, y>>)]
                   ELSE details[q]],
           open_list |-> open,
           found |-> TRUE]
      ELSE
        LET info == details[<<x, y>>]
            g == info.g + 1
            h == manhatten_distance(next_x, next_y, tgt[1], tgt[2])
            f == g + h
        IN
        IF next \in DOMAIN details THEN
            \* which has a lower f than successor, skip this successor
            IF skip_successor(details[next].f, f)
            THEN expand(k + 1, succs, x, y, details, open, closed, tgt)
            ELSE expand(k + 1, succs, x, y,
                        [details EXCEPT ![next] =
                            [parent |-> Some(<<x, y>>), g |-> g, h |-> h, f |-> f]],
                        open, closed, tgt)
        ELSE
            expand(k + 1, succs, x, y,
                   [q \in DOMAIN details \cup {next} |->
                       IF q = next
                       THEN [parent |-> Some(<<x, y>>), g |-> g, h |-> h, f |-> f]
                       ELSE details[q]],
                   Append(open, next), closed, tgt)

closed_list_reused(g) == closed_list

\* vec![vec![false; grid.len()]; grid.len()] (path.rs 35)
new_closed_list(g) ==
    [x \in 0 .. GridLen(g) - 1 |-> [y \in 0 .. GridLen(g) - 1 |-> FALSE]]

iteration_without_exit(g, tgt, details, open, closed) ==
    LET i == lowest_f(open, details)
        x == open[i][1]
        y == open[i][2]
        closed2 == [closed EXCEPT ![x][y] = TRUE]
        out == expand(1, path_generate_successors(x, y, g), x, y, details,
                      swap_remove(open, i), closed2, <<GridLen(g), GridLen(g)>>)
    IN  [cell_details |-> out.cell_details,
         open_list |-> out.open_list,
         closed_list |-> closed2,
         found |-> out.found,
         point |-> <<x, y>>]

\* the body of the main loop (path.rs 52-123) on solve's locals
iteration(g, tgt, details, open, closed) ==
    LET i == lowest_f(open, details)
        x == open[i][1]
        y == open[i][2]
        closed2 == [closed EXCEPT ![x][y] = TRUE]
        out == expand(1, path_generate_successors(x, y, g), x, y, details,
                      swap_remove(open, i), closed2, tgt)
    IN  [cell_details |-> out.cell_details,
         open_list |-> out.open_list,
         closed_list |-> closed2,
         found |-> out.found,
         point |-> <<x, y>>]

\* one iteration of the main loop (path.rs 51-124), but for the grid
IterateSearch ==
    /\ pc = "loop"
    /\ open_list # <<>>
    /\ \E it \in {iteration(grid, target, cell_details, open_list, closed_list)} :
           /\ closed_list' = it.closed_list
           /\ cell_details' = it.cell_details
           /\ open_list' = it.open_list
           /\ popped' = Append(popped, it.point)
           /\ IF it.found
              THEN /\ pc' = "path"
                   /\ cursor' = target
              ELSE /\ pc' = "loop"
                   /\ cursor' = cursor
    /\ UNCHANGED <<start, target, result, prev, point, successors>>
    /\ UNCHANGED gameVars

IterateMarkingGrid ==
    /\ IterateSearch
    /\ grid' = [grid EXCEPT ![popped'[Len(popped')][1]][popped'[Len(popped')][2]] = "Crash"]

\* one iteration of the main loop (path.rs 51-124); grid is borrowed immutably
Iterate ==
    /\ IterateSearch
    /\ UNCHANGED grid

directions_push_front(dirs, d) == <<d>> \o dirs

\* directions.push(direction) (path.rs 216)
directions_push(dirs, d) == Append(dirs, d)

\* generate_path's loop (path.rs 211-224) with fuel iterations left.  A walk
\* over acyclic parent pointers breaks within as many iterations as there are
\* records; one that has not by then revisits a record and loops for ever.
RECURSIVE generate_path_loop(_, _, _, _, _)
generate_path_loop(x, y, details, dirs, fuel) ==
    IF fuel = 0 THEN [directions |-> dirs, cursor |-> <<x, y>>, returned |-> FALSE]
    ELSE LET info == details[<<x, y>>]
         IN  IF info.parent # None
             THEN LET parent == info.parent[1]
                  IN  generate_path_loop(parent[1], parent[2], details,
                          directions_push(dirs, get_direction(parent[1], parent[2], x, y)),
                          fuel - 1)
             ELSE [directions |-> dirs, cursor |-> <<x, y>>, returned |-> TRUE]

generate_path(start_x, start_y, details) ==
    generate_path_loop(start_x, start_y, details, <<>>, Cardinality(DOMAIN details))

\* `return generate_path(next_x, next_y, &cell_details)` (path.rs 80)
GeneratePath ==
    /\ pc = "path"
    /\ \E out \in {generate_path(target[1], target[2], cell_details)} :
           /\ cursor' = out.cursor
           /\ IF out.returned
              THEN /\ result' = out.directions
                   /\ pc' = "done"
              ELSE /\ result' = result
                   /\ pc' = "hang"
    /\ UNCHANGED <<grid, start, target, cell_details, open_list, closed_list, popped,
                   prev, point, successors>>
    /\ UNCHANGED gameVars

fallback_results_none(g, s) == {<<>>}

fallback_results_first(g, s) ==
    LET succs == path_generate_successors(s[1], s[2], g)
    IN  IF Len(succs) > 0
        THEN {<<get_direction(s[1], s[2], succs[1][1], succs[1][2])>>}
        ELSE {<<>>}

\* what the code after the main loop can return (path.rs 126-136): the
\* direction to successors[n] for any n the random generator may draw,
\* or nothing
fallback_results(g, s) ==
    LET succs == path_generate_successors(s[1], s[2], g)
    IN  IF Len(succs) > 0
        THEN {<<get_direction(s[1], s[2], succs[n + 1][1], succs[n + 1][2])>> :
                  n \in 0 .. Len(succs) - 1}
        ELSE {<<>>}

\* We didn't find a clear path (path.rs 126-136)
Fallback ==
    /\ pc = "loop"
    /\ open_list = <<>>
    /\ result' \in fallback_results(grid, start)
    /\ pc' = "done"
    /\ UNCHANGED <<grid, start, target, cell_details, open_list, closed_list, cursor,
                   popped, prev, point, successors>>
    /\ UNCHANGED gameVars

\* `while !open_list.is_empty()` (path.rs 51) around one run of the body,
\* on solve's locals; st.found says that the body has returned
search_step(g, tgt, st) ==
    IF st.found \/ st.open_list = <<>> THEN st
    ELSE LET it == iteration(g, tgt, st.cell_details, st.open_list, st.closed_list)
         IN  [cell_details |-> it.cell_details, open_list |-> it.open_list,
              closed_list |-> it.closed_list, popped |-> Append(st.popped, it.point),
              found |-> it.found]

\* 2^n passes of the loop; a pass after the loop has ended changes nothing
RECURSIVE search_run(_, _, _, _)
search_run(n, g, tgt, st) ==
    IF st.found \/ st.open_list = <<>> THEN st
    ELSE IF n = 0 THEN search_step(g, tgt, st)
    ELSE CHOOSE r \in {search_run(n - 1, g, tgt, half) :
                           half \in {search_run(n - 1, g, tgt, st)}} : TRUE

\* the least n with 2^n >= k
RECURSIVE Doublings(_)
Doublings(k) == IF k <= 1 THEN 0 ELSE 1 + Doublings((k + 1) \div 2)

\* the main loop run until it returns or the open list is empty (path.rs
\* 51-124).  Every pass closes a point that was not closed, so the loop has
\* ended after as many passes as closed_list has entries.
search(g, tgt, details, open, closed, pops) ==
    search_run(Doublings(GridLen(g) * GridLen(g)), g, tgt,
               [cell_details |-> details, open_list |-> open, closed_list |-> closed,
                popped |-> pops, found |-> FALSE])

\* a whole call of solve on the grid and the start as they are (path.rs 24-137)
Solve ==
    /\ target' = find_target(grid)
    /\ \E run \in {search(grid, find_target(grid), [q \in {start} |-> DefaultCellInfo],
                          <<start>>, new_closed_list(grid), <<>>)} :
           /\ cell_details' = run.cell_details
           /\ open_list' = run.open_list
           /\ closed_list' = run.closed_list
           /\ popped' = run.popped
           /\ IF run.found
              THEN LET out == generate_path(target'[1], target'[2], run.cell_details)
                   IN  /\ cursor' = out.cursor
                       /\ IF out.returned
                          THEN /\ result' = out.directions
                               /\ pc' = "done"
                          ELSE /\ result' = <<>>
                               /\ pc' = "hang"
              ELSE /\ cursor' = None
                   /\ result' \in fallback_results(grid, start)
                   /\ pc' = "done"
    /\ UNCHANGED <<grid, start, point, successors>>
    /\ UNCHANGED gameVars

\* the first call, from its entry to its return
FirstCall ==
    /\ pc = "loop"
    /\ popped = <<>>
    /\ Solve
    /\ prev' = prev

\* a further call with the grid and the start unchanged
Call ==
    /\ pc = "done"
    /\ prev = None
    /\ prev' = Some(result)
    /\ Solve

(***************************************************************************)
(* The inputs of solve: square grids with one Food tile, the head of the   *)
(* snake at start, and up to MaxBlocked further non-traversable tiles.  A  *)
(* blocked tile next to the head is a segment of the snake, any other an   *)
(* obstacle.                                                               *)
(***************************************************************************)
RECURSIVE BoundedSubsets(_, _)
BoundedSubsets(S, k) ==
    IF k = 0 THEN {{}}
    ELSE LET r == BoundedSubsets(S, k - 1)
         IN  r \cup {b \cup {e} : b \in r, e \in S}

SquarePoints == (0 .. GridSize - 1) \X (0 .. GridSize - 1)

MakeGrid(f, s, blocked) ==
    [x \in 0 .. GridSize - 1 |->
        [y \in 0 .. GridSize - 1 |->
            IF <<x, y>> = f THEN "Food"
            ELSE IF <<x, y>> = s THEN "Snake"
            ELSE IF <<x, y>> \in blocked
                 THEN IF Abs(x - s[1]) + Abs(y - s[2]) = 1
                      THEN "Snake" ELSE "Obstacle"
            ELSE "Free"]]

Init ==
    \E f \in SquarePoints :
      \E blocked \in BoundedSubsets(SquarePoints \ {f}, MaxBlocked) :
        \E s \in SquarePoints \ (blocked \cup {f}) :
            /\ grid = MakeGrid(f, s, blocked)
            /\ start = s
            /\ target = find_target(grid)
            /\ cell_details = [q \in {s} |-> DefaultCellInfo]
            /\ open_list = <<s>>
            /\ closed_list = [x \in 0 .. GridSize - 1 |-> [y \in 0 .. GridSize - 1 |-> FALSE]]
            /\ pc = "loop"
            /\ cursor = None
            /\ result = <<>>
            /\ popped = <<>>
            /\ prev = None
            /\ point = None
            /\ successors = <<>>
            /\ NoGame

Next == Iterate \/ GeneratePath \/ Fallback

Spec == Init /\ [][Next]_vars

NextTwice == FirstCall \/ Call

SpecTwice == Init /\ [][NextTwice]_vars

(***************************************************************************)
(* The grid model on its own: neighbour enumeration on rectangular grids   *)
(* of every width and height from 2 to MaxSide.                            *)
(***************************************************************************)
InitGrid ==
    \E w \in 2 .. MaxSide, h \in 2 .. MaxSide :
        /\ grid = [x \in 0 .. w - 1 |-> [y \in 0 .. h - 1 |-> "Free"]]
        /\ start = <<0, 0>>
        /\ target = <<0, 0>>
        /\ cell_details = <<>>
        /\ open_list = <<>>
        /\ closed_list = <<>>
        /\ pc = "grid"
        /\ cursor = None
        /\ result = <<>>
        /\ popped = <<>>
        /\ prev = None
        /\ point = None
        /\ successors = <<>>
        /\ NoGame

Enumerate ==
    /\ pc = "grid"
    /\ \E p \in PointsOf(grid) :
          /\ point' = Some(p)
          /\ successors' = generate_successors(p, grid)
    /\ UNCHANGED <<grid, start, target, cell_details, open_list, closed_list, pc, cursor,
                   result, popped, prev>>
    /\ UNCHANGED gameVars

NextGrid == Enumerate

SpecGrid == InitGrid /\ [][NextGrid]_vars

(***************************************************************************)
(* solve on rectangular grids of every width and height, from start points *)
(* inside the grid and one column or row beyond it.  An index out of range *)
(* panics.                                                                 *)
(***************************************************************************)
MakeRect(w, h, f, s, blocked) ==
    [x \in 0 .. w - 1 |->
        [y \in 0 .. h - 1 |->
            IF <<x, y>> = f THEN "Food"
            ELSE IF <<x, y>> = s THEN "Snake"
            ELSE IF <<x, y>> \in blocked THEN "Obstacle"
            ELSE "Free"]]

InitRect ==
    \E w \in 1 .. MaxRect, h \in 1 .. MaxRect :
      \E f \in (0 .. w - 1) \X (0 .. h - 1) :
        \E blocked \in BoundedSubsets(((0 .. w - 1) \X (0 .. h - 1)) \ {f}, MaxRectBlocked) :
          \E s \in ((0 .. w) \X (0 .. h)) \ (blocked \cup {f}) :
            /\ grid = MakeRect(w, h, f, s, blocked)
            /\ start = s
            /\ target = find_target(grid)
            /\ cell_details = [q \in {s} |-> DefaultCellInfo]
            /\ open_list = <<s>>
            /\ closed_list = new_closed_list(grid)
            /\ pc = "loop"
            /\ cursor = None
            /\ result = <<>>
            /\ popped = <<>>
            /\ prev = None
            /\ point = None
            /\ successors = <<>>
            /\ NoGame

\* closed_list[x][y] = true (path.rs 59) indexes out of range
closed_list_faults(closed, p) ==
    \/ p[1] \notin DOMAIN closed
    \/ p[2] \notin DOMAIN closed[p[1]]

\* the filter of path.rs generate_successors reads grid[x][y] of every
\* neighbour that passed the range checks against grid.len(): one of them
\* is out of range
generate_successors_faults(x, y, g) ==
    \E q \in ((IF x > 0 THEN {<<x - 1, y>>} ELSE {})
              \cup (IF x + 1 < GridLen(g) THEN {<<x + 1, y>>} ELSE {})
              \cup (IF y + 1 < GridLen(g) THEN {<<x, y + 1>>} ELSE {})
              \cup (IF y > 0 THEN {<<x, y - 1>>} ELSE {})) :
        \/ q[1] \notin DOMAIN g
        \/ q[2] \notin DOMAIN g[q[1]]

OutOfBoundsIgnored == "done"

\* where solve is after an index out of range: the thread has panicked
OutOfBounds == "panic"

\* one iteration of the main loop (path.rs 51-124) with its index checks
IterateRect ==
    /\ pc = "loop"
    /\ open_list # <<>>
    /\ \E p \in {open_list[lowest_f(open_list, cell_details)]} :
          IF \/ closed_list_faults(closed_list, p)
             \/ generate_successors_faults(p[1], p[2], grid)
          THEN /\ pc' = OutOfBounds
               /\ popped' = Append(popped, p)
               /\ UNCHANGED <<grid, start, target, cell_details, open_list, closed_list,
                              cursor, result, prev, point, successors>>
               /\ UNCHANGED gameVars
          ELSE Iterate

NextRect == IterateRect \/ GeneratePath \/ Fallback

SpecRect == InitRect /\ [][NextRect]_vars

(***************************************************************************)
(* Direction::opposite and next_point on their own: from every point a     *)
(* head can be on (both coordinates at least 1, inside the border) and     *)
(* every direction, a step, a reversal, a step and a reversal.             *)
(***************************************************************************)
InitTurn ==
    \E p \in (1 .. MaxSide) \X (1 .. MaxSide), d \in Direction :
        /\ grid = <<>>
        /\ start = <<0, 0>>
        /\ target = <<0, 0>>
        /\ cell_details = <<>>
        /\ open_list = <<>>
        /\ closed_list = <<>>
        /\ pc = "turn"
        /\ cursor = None
        /\ result = <<>>
        /\ popped = <<>>
        /\ prev = None
        /\ point = None
        /\ successors = <<>>
        /\ snake = <<p>>
        /\ food = <<>>
        /\ direction = d
        /\ path = <<>>
        /\ end = FALSE
        /\ paused = FALSE
        /\ steps = 0
        /\ config = <<>>
        /\ last = <<>>
        /\ interval = 0

\* snake.push_front(next_point(*head, direction)) (snake.rs 127, 140)
Advance ==
    /\ pc = "turn"
    /\ Len(snake) < 3
    /\ snake' = <<next_point(snake[1], direction)>> \o snake
    /\ pc' = "reverse"
    /\ UNCHANGED <<grid, start, target, cell_details, open_list, closed_list, cursor,
                   result, popped, prev, point, successors, food, direction, path, end,
                   paused, steps, config, last, interval>>

\* direction.opposite() (types.rs 23-32)
Reverse ==
    /\ pc = "reverse"
    /\ direction' = opposite(direction)
    /\ pc' = "turn"
    /\ UNCHANGED <<grid, start, target, cell_details, open_list, closed_list, cursor,
                   result, popped, prev, point, successors, snake, food, path, end,
                   paused, steps, config, last, interval>>

NextTurn == Advance \/ Reverse

SpecTurn == InitTurn /\ [][NextTurn]_vars

(***************************************************************************)
(* snake.rs: the set-up of a round                                         *)
(***************************************************************************)
\* the distance from the edge spawn_snake asks of random_empty_point
SnakeDistance == 4

\* the distance from the edge spawn_food asks of random_empty_point
FoodDistance == 1

\* grid_width * grid_height / 25
ObstacleDivisor == 25

\* grid_width and grid_height: the smallest side on which spawn_snake's
\* random_empty_point has a point to return
GameSize == 2 * SnakeDistance + 3

\* obstacle_count (snake.rs 37)
obstacle_count == (GameSize * GameSize) \div ObstacleDivisor

create_grid(width, height) ==
    [x \in 0 .. width - 1 |->
        [y \in 0 .. height - 1 |->
            IF x = 0 \/ y = 0 \/ x = width - 1 \/ y = height - 1
            THEN "Obstacle" ELSE "Free"]]

\* grid[x][y] = tile
SetTile(g, p, tile) == [g EXCEPT ![p[1]][p[2]] = tile]

\* the points random_empty_point picks one of at random
random_empty_point(g, distance) ==
    LET min_x == distance
        max_x == GridLen(g) - distance - 1
        min_y == distance
        max_y == GridHeight(g) - distance - 1
    IN  {q \in PointsOf(g) :
            /\ q[1] > min_x
            /\ q[1] < max_x
            /\ q[2] > min_y
            /\ q[2] < max_y
            /\ g[q[1]][q[2]] = "Free"}

\* Checks if point is in this shape: #p#
\*                                    #
is_in_dead_end(g, p) ==
    LET succs == generate_successors(p, g)
        free == Cardinality({k \in 1 .. Len(succs) : g[succs[k][1]][succs[k][2]] = "Free"})
    IN  free < 2

obstacle_stays_always(g, p) == TRUE

\* one pass of spawn_obstacles' inner loop with p drawn: whether the loop
\* breaks with the obstacle in place (snake.rs 268-277)
obstacle_stays(g, p) ==
    LET placed == SetTile(g, p, "Obstacle")
        succs == generate_successors(p, placed)
    IN  \A k \in 1 .. Len(succs) :
            ~ (/\ placed[succs[k][1]][succs[k][2]] = "Free"
               /\ is_in_dead_end(placed, succs[k]))

\* a point and its four orthogonal neighbours
Around(p) == {p} \cup {next_point(p, d) : d \in Direction}

\* The random generator of the model draws the food among the points at
\* most two steps from the head, and the obstacles among the segments of
\* the snake and their neighbours.
NearHead(sn) == UNION {Around(q) : q \in Around(sn[1])}

NearSnake(sn) == UNION {Around(sn[k]) : k \in 1 .. Len(sn)}

\* the grids spawn_obstacles can leave when it has k more obstacles to place
RECURSIVE spawn_obstacles(_, _, _)
spawn_obstacles(grids, zone, k) ==
    IF k = 0 THEN grids
    ELSE spawn_obstacles(
             UNION {{SetTile(g, p, "Obstacle") :
                        p \in {q \in random_empty_point(g, 0) \cap zone : obstacle_stays(g, q)}} :
                    g \in grids},
             zone, k - 1)

\* snake_direction: the direction from the second segment to the head
snake_direction(sn) ==
    LET x == sn[1][1]
        y == sn[1][2]
        i == sn[2][1]
        j == sn[2][2]
    IN  IF x > i THEN "East"
        ELSE IF x < i THEN "West"
        ELSE IF y > j THEN "South"
        ELSE "North"

\* what lines 39-44 and 59-60 of run can leave: the grid, the snake, the
\* food and the direction of a new round
Rounds(no_obstacles) ==
    UNION {UNION {UNION {
        LET sn == <<next_point(t, d0), t>>
            with_snake == SetTile(create_grid(GameSize, GameSize), t, "Snake")
            with_food == SetTile(with_snake, f, "Food")
        IN  {[grid |-> g, snake |-> sn, food |-> f, direction |-> d1] :
                g \in (IF no_obstacles THEN {with_food}
                       ELSE spawn_obstacles({with_food}, NearSnake(sn), obstacle_count + 1)),
                d1 \in Direction} :
        f \in random_empty_point(
                 SetTile(create_grid(GameSize, GameSize), t, "Snake"), FoodDistance)
              \cap NearHead(<<next_point(t, d0), t>>)} :
        d0 \in Direction} :
        t \in random_empty_point(create_grid(GameSize, GameSize), SnakeDistance)}

RoundsWithoutObstacles == Rounds(TRUE)

RoundsWithObstacles == Rounds(FALSE)

RoundsOf(cfg) == IF cfg.no_obstacles THEN RoundsWithoutObstacles ELSE RoundsWithObstacles

(***************************************************************************)
(* snake.rs: run, the event loop.  The input thread and the tick thread    *)
(* send into one channel and run receives one message at a time, so the    *)
(* interleavings of the two senders are the orders in which the handlers   *)
(* below follow each other.                                                *)
(***************************************************************************)
\* what path::find(&grid, *head, food) can return: the search of solve
\* (path.rs 24-137) from s with t, the caller's food, for its target
find(g, s, t) ==
    LET run == search(g, t, [q \in {s} |-> DefaultCellInfo], <<s>>, new_closed_list(g), <<>>)
    IN  IF run.found
        THEN LET out == generate_path(t[1], t[2], run.cell_details)
             IN  {[returned |-> out.returned, directions |-> out.directions]}
        ELSE {[returned |-> TRUE, directions |-> r] : r \in fallback_results(g, s)}

\* history: no tick has moved the snake
NoStep ==
    [heading |-> "None", applied |-> "None", kept |-> TRUE, invoked |-> FALSE,
     found |-> <<>>, tile |-> "None"]

\* the ticks the model lets a round have
StepBound ==
    IF ~ config.autopilot THEN MaxManualSteps
    ELSE IF config.no_obstacles THEN MaxAutoSteps
    ELSE MaxObstacleSteps

\* run is entered with one of configs; no round has been set up
InitGame(configs) ==
    /\ config \in configs
    /\ pc = "setup"
    /\ grid = <<>>
    /\ snake = <<>>
    /\ food = <<>>
    /\ direction = "North"
    /\ path = <<>>
    /\ end = FALSE
    /\ paused = FALSE
    /\ steps = 0
    /\ last = NoStep
    /\ interval = 0
    /\ start = <<0, 0>>
    /\ target = <<0, 0>>
    /\ cell_details = <<>>
    /\ open_list = <<>>
    /\ closed_list = <<>>
    /\ cursor = None
    /\ result = <<>>
    /\ popped = <<>>
    /\ prev = None
    /\ point = None
    /\ successors = <<>>

\* lines 39-44 and 59-60 of run, and the same calls at its lines 81-92
SetupRound ==
    /\ pc = "setup"
    /\ \E round \in RoundsOf(config) :
          /\ grid' = round.grid
          /\ snake' = round.snake
          /\ food' = round.food
          /\ direction' = round.direction
    /\ path' = <<>>
    /\ pc' = "recv"
    /\ UNCHANGED <<end, paused, steps, config, last>>
    /\ UNCHANGED <<searchVars, interval>>

\* Input::Unknown => {}
Unknown ==
    /\ pc = "recv"
    /\ UNCHANGED vars

\* Input::Exit => break
Exit ==
    /\ pc = "recv"
    /\ pc' = "exit"
    /\ UNCHANGED <<grid, snake, food, direction, path, end, paused, steps, config, last>>
    /\ UNCHANGED <<searchVars, interval>>

\* the direction after Input::ChangeDirection(d) (snake.rs 66-73)
change_direction(d) ==
    LET current_direction == snake_direction(snake)
    IN  IF d # opposite(current_direction) THEN d ELSE direction

ChangeDirection ==
    /\ pc = "recv"
    /\ \E d \in Direction : direction' = change_direction(d)
    /\ UNCHANGED <<grid, pc, snake, food, path, end, paused, steps, config, last>>
    /\ UNCHANGED <<searchVars, interval>>

\* Input::Pause: restart a game that has ended, else pause or resume.  A
\* restart sets up a round as run did at its start; what the old round left
\* in grid, snake, food, direction and path is overwritten before it is read
\* again and is dropped at once.  The interval only times the Step messages;
\* its stores are followed in SpecInterval (RestartInterval, FoodEaten).
Pause ==
    /\ pc = "recv"
    /\ IF end
       THEN /\ end' = FALSE
            /\ paused' = FALSE
            /\ steps' = 0
            /\ grid' = <<>>
            /\ snake' = <<>>
            /\ food' = <<>>
            /\ direction' = "North"
            /\ path' = <<>>
            /\ last' = NoStep
            /\ pc' = "setup"
       ELSE /\ paused' = ~ paused
            /\ UNCHANGED <<grid, pc, snake, food, direction, path, end, steps, last>>
    /\ UNCHANGED config
    /\ UNCHANGED <<searchVars, interval>>

autopilot_moves_uncached ==
    IF ~ config.autopilot
    THEN {[invoked |-> FALSE, returned |-> TRUE, found |-> <<>>,
           direction |-> direction, path |-> path]}
    ELSE {[invoked |-> TRUE, returned |-> r.returned, found |-> r.directions,
           direction |-> IF r.directions = <<>> THEN direction
                         ELSE r.directions[Len(r.directions)],
           path |-> IF r.directions = <<>> THEN <<>>
                    ELSE SubSeq(r.directions, 1, Len(r.directions) - 1)] :
              r \in find(grid, snake[1], food)}

\* lines 116-124 of run: the pathfinder's answer when it is asked, the
\* direction of the tick and the path kept for the next ticks
autopilot_moves ==
    IF ~ config.autopilot
    THEN {[invoked |-> FALSE, returned |-> TRUE, found |-> <<>>,
           direction |-> direction, path |-> path]}
    ELSE IF path = <<>>
    THEN {[invoked |-> TRUE, returned |-> r.returned, found |-> r.directions,
           direction |-> IF r.directions = <<>> THEN direction
                         ELSE r.directions[Len(r.directions)],
           path |-> IF r.directions = <<>> THEN <<>>
                    ELSE SubSeq(r.directions, 1, Len(r.directions) - 1)] :
              r \in find(grid, snake[1], food)}
    ELSE {[invoked |-> FALSE, returned |-> TRUE, found |-> <<>>,
           direction |-> path[Len(path)],
           path |-> SubSeq(path, 1, Len(path) - 1)]}

MoveDroppingTail(m) ==
    LET head == snake[1]
        p == next_point(head, m.direction)
        tile == grid[p[1]][p[2]]
    IN  /\ direction' = m.direction
        /\ path' = m.path
        /\ last' = [heading |-> snake_direction(snake), applied |-> m.direction,
                    kept |-> (m.direction = direction), invoked |-> m.invoked,
                    found |-> m.found, tile |-> tile]
        /\ CASE tile \in {"Obstacle", "Snake"} ->
                  /\ grid' = SetTile(grid, p, "Crash")
                  /\ end' = TRUE
                  /\ steps' = steps + 1
                  /\ UNCHANGED <<pc, snake, food>>
             [] tile = "Food" ->
                  /\ Len(snake) < MaxEaten + 2
                  /\ snake' = SubSeq(<<p>> \o snake, 1, Len(snake))
                  /\ \E f \in random_empty_point(SetTile(grid, p, "Snake"), FoodDistance)
                                  \cap NearHead(<<p>> \o snake) :
                        /\ food' = f
                        /\ grid' = SetTile(SetTile(grid, p, "Snake"), f, "Food")
                  /\ steps' = steps + 1
                  /\ UNCHANGED <<pc, end>>
             [] tile = "Free" ->
                  LET tail == (<<p>> \o snake)[Len(snake) + 1]
                  IN  /\ snake' = SubSeq(<<p>> \o snake, 1, Len(snake))
                      /\ grid' = SetTile(SetTile(grid, p, "Snake"), tail, "Free")
                      /\ steps' = steps + 1
                      /\ UNCHANGED <<pc, end, food>>
             [] tile = "Crash" ->
                  /\ pc' = "panic"
                  /\ UNCHANGED <<grid, snake, food, end, steps>>

\* Input::Step while the game runs (snake.rs 113-166) with m of autopilot_moves
Move(m) ==
    LET head == snake[1]
        p == next_point(head, m.direction)
        tile == grid[p[1]][p[2]]
    IN  /\ direction' = m.direction
        /\ path' = m.path
        /\ last' = [heading |-> snake_direction(snake), applied |-> m.direction,
                    kept |-> (m.direction = direction), invoked |-> m.invoked,
                    found |-> m.found, tile |-> tile]
        /\ CASE tile \in {"Obstacle", "Snake"} ->
                  /\ grid' = SetTile(grid, p, "Crash")
                  /\ end' = TRUE
                  /\ steps' = steps + 1
                  /\ UNCHANGED <<pc, snake, food>>
             [] tile = "Food" ->
                  /\ Len(snake) < MaxEaten + 2
                  /\ snake' = <<p>> \o snake
                  /\ \E f \in random_empty_point(SetTile(grid, p, "Snake"), FoodDistance)
                                  \cap NearHead(<<p>> \o snake) :
                        /\ food' = f
                        /\ grid' = SetTile(SetTile(grid, p, "Snake"), f, "Food")
                  /\ steps' = steps + 1
                  /\ UNCHANGED <<pc, end>>
             [] tile = "Free" ->
                  LET tail == (<<p>> \o snake)[Len(snake) + 1]
                  IN  /\ snake' = SubSeq(<<p>> \o snake, 1, Len(snake))
                      /\ grid' = SetTile(SetTile(grid, p, "Snake"), tail, "Free")
                      /\ steps' = steps + 1
                      /\ UNCHANGED <<pc, end, food>>
             [] tile = "Crash" ->
                  /\ pc' = "panic"
                  /\ UNCHANGED <<grid, snake, food, end, steps>>

StepWhileEnded ==
    /\ pc = "recv"
    /\ steps < StepBound
    /\ IF paused
       THEN UNCHANGED <<grid, pc, snake, food, direction, path, end, steps, last>>
       ELSE \E m \in autopilot_moves :
               IF m.returned
               THEN Move(m)
               ELSE /\ pc' = "hang"
                    /\ last' = [NoStep EXCEPT !.invoked = TRUE]
                    /\ UNCHANGED <<grid, snake, food, direction, path, end, steps>>
    /\ UNCHANGED <<paused, config>>
    /\ UNCHANGED <<searchVars, interval>>

\* Input::Step
Step ==
    /\ pc = "recv"
    /\ steps < StepBound
    /\ IF end \/ paused
       THEN UNCHANGED <<grid, pc, snake, food, direction, path, end, steps, last>>
       ELSE \E m \in autopilot_moves :
               IF m.returned
               THEN Move(m)
               ELSE /\ pc' = "hang"
                    /\ last' = [NoStep EXCEPT !.invoked = TRUE]
                    /\ UNCHANGED <<grid, snake, food, direction, path, end, steps>>
    /\ UNCHANGED <<paused, config>>
    /\ UNCHANGED <<searchVars, interval>>

NextGame == SetupRound \/ Unknown \/ Exit \/ ChangeDirection \/ Pause \/ Step

\* a game played by hand on a grid without obstacles
InitManual == InitGame({[autopilot |-> FALSE, no_obstacles |-> TRUE]})

SpecManual == InitManual /\ [][NextGame]_vars

\* a game played by the autopilot, with and without obstacles
InitAuto == InitGame({[autopilot |-> TRUE, no_obstacles |-> n] : n \in BOOLEAN})

SpecAuto == InitAuto /\ [][NextGame]_vars

(***************************************************************************)
(* Vocabulary of the properties, defined on the grid alone.                *)
(***************************************************************************)
Traversable(g, p) == g[p[1]][p[2]] \in {"Free", "Food"}

\* the orthogonally adjacent points of p inside g
Adjacent(g, p) ==
    {q \in {<<p[1] - 1, p[2]>>, <<p[1] + 1, p[2]>>, <<p[1], p[2] - 1>>, <<p[1], p[2] + 1>>} :
        /\ q[1] \in DOMAIN g
        /\ q[2] \in DOMAIN g[q[1]]}

TraversableNeighbours(g, p) == {q \in Adjacent(g, p) : Traversable(g, q)}

\* breadth-first layers over traversable tiles; -1 when t is never reached
RECURSIVE BfsFrom(_, _, _, _, _)
BfsFrom(g, frontier, seen, d, t) ==
    IF t \in frontier THEN d
    ELSE LET new == UNION {TraversableNeighbours(g, p) : p \in frontier} \ seen
         IN  IF new = {} THEN -1
             ELSE BfsFrom(g, new, seen \cup new, d + 1, t)

BfsDistance(g, s, t) == BfsFrom(g, {s}, {s}, 0, t)

\* the length of a shortest route from start to target, or -1
Shortest == BfsDistance(grid, start, target)

Reachable == Shortest >= 0

Manhattan == Abs(start[1] - target[1]) + Abs(start[2] - target[2])

\* the caller's use of a result: pop a direction off the end, step, repeat
RECURSIVE WalkEndsAt(_, _, _, _)
WalkEndsAt(g, p, route, t) ==
    IF route = <<>> THEN p = t
    ELSE LET q == next_point(p, route[Len(route)])
         IN  /\ q \in PointsOf(g)
             /\ Traversable(g, q)
             /\ WalkEndsAt(g, q, SubSeq(route, 1, Len(route) - 1), t)

Count(route, d) == Cardinality({k \in 1 .. Len(route) : route[k] = d})

\* sum of the unit vectors of the directions of route
Displacement(route) ==
    <<Count(route, "East") - Count(route, "West"),
      Count(route, "South") - Count(route, "North")>>

\* the search ended by the early return on the target / by the fallback
RouteFound == pc = "done" /\ target \in DOMAIN cell_details

FellBack == pc = "done" /\ target \notin DOMAIN cell_details

(***************************************************************************)
(* Properties                                                              *)
(***************************************************************************)

C3_EmptyIffEnclosed ==
    pc = "done" => (result = <<>> <=> TraversableNeighbours(grid, start) = {})

\* a fully enclosed start, answered by the empty sequence
C3_Witness ==
    /\ pc = "done"
    /\ TraversableNeighbours(grid, start) = {}
    /\ result = <<>>

\* the direction of the step from p to its neighbour q
DirectionTo(p, q) == CHOOSE d \in Direction : next_point(p, d) = q

\* C4: when the open list runs empty without the target being reached and
\* start has a traversable neighbour, the result is one direction, pointing
\* from start to a traversable neighbour of start; and every traversable
\* neighbour of start can be the one chosen.
C4_FallbackStep ==
    /\ (FellBack /\ TraversableNeighbours(grid, start) # {}) =>
           /\ Len(result) = 1
           /\ result[1] \in Direction
           /\ next_point(start, result[1]) \in TraversableNeighbours(grid, start)
    /\ (pc = "loop" /\ open_list = <<>>) =>
           \A q \in TraversableNeighbours(grid, start) :
               ENABLED (Fallback /\ result' = <<DirectionTo(start, q)>>)

\* the fallback chose among several neighbours, and not the first of them
C4_Witness ==
    /\ FellBack
    /\ Cardinality(TraversableNeighbours(grid, start)) >= 2
    /\ Len(result) = 1
    /\ next_point(start, result[1]) # path_generate_successors(start[1], start[2], grid)[1]

Unobstructed ==
    \A p \in PointsOf(grid) :
        ( /\ p # start
          /\ (p[1] - start[1]) * (p[1] - target[1]) <= 0
          /\ (p[2] - start[2]) * (p[2] - target[2]) <= 0 ) => Traversable(grid, p)

Max(a, b) == IF a > b THEN a ELSE b

NoDuplicates(list) == \A i, j \in 1 .. Len(list) : list[i] = list[j] => i = j

\* C8: no point is removed from the open list twice, so the main loop runs
\* at most width * height times; the walk over the parent pointers never
\* cycles: it takes fewer steps than there are records and ends on the
\* record of start.
C8_Terminates ==
    /\ NoDuplicates(popped)
    /\ Len(popped) <= GridLen(grid) * GridHeight(grid)
    /\ pc # "hang"
    /\ RouteFound =>
           /\ cursor = start
           /\ cell_details[start].parent = None
           /\ Len(result) < Cardinality(DOMAIN cell_details)

\* a search of several iterations whose walk came back to start
C8_Witness ==
    /\ RouteFound
    /\ Len(popped) >= 4
    /\ Len(result) >= 3
    /\ cursor = start

\* C9: no step of a pathfinder call changes a tile of the grid.
C9_GridUnchanged == [][grid' = grid]_vars

\* calls that returned a route, a fallback step, or nothing
C9_Witness ==
    /\ pc = "done"
    /\ Len(popped) >= 2
    /\ \/ RouteFound /\ Len(result) >= 2
       \/ FellBack

\* the neighbours of p inside g, in the order West, East, South, North
NeighboursInOrder(g, p) ==
    LET all == <<next_point(p, "West"), next_point(p, "East"),
                 next_point(p, "South"), next_point(p, "North")>>
        inside(q) == q \in PointsOf(g)
    IN  SelectSeq(all, inside)

C11_OppositeInvolutive ==
    pc \in {"turn", "reverse"} =>
        /\ opposite(direction) \in Direction
        /\ opposite(direction) # direction
        /\ opposite(opposite(direction)) = direction
        /\ Len(snake) = 3 => snake[1] = snake[3]

C11_Witness ==
    /\ pc = "turn"
    /\ Len(snake) = 3
    /\ snake[2] # snake[3]
    /\ snake[1] = snake[3]

(***************************************************************************)
(* C12 - C16: the event loop                                               *)
(***************************************************************************)
\* the last message handled was a Step that moved or crashed the snake
Stepped == last.tile # "None"

\* C12: in a game played by hand the direction applied at a Step is never
\* the opposite of the heading the snake had when the Step was received, and
\* no ChangeDirection sets the direction to the opposite of the heading.
C12_NeverReversed ==
    /\ (~ config.autopilot /\ Stepped) => last.applied # opposite(last.heading)
    /\ \A d \in Direction :
           (pc = "recv" /\ d = opposite(snake_direction(snake)))
               => change_direction(d) = direction

\* the last message handled was a Step for which the pathfinder was asked
\* and returned an empty sequence
ReturnedEmpty == config.autopilot /\ Stepped /\ last.invoked /\ last.found = <<>>

Ticked == steps' = steps + 1

\* what a tick could pop a direction from: the answer of the pathfinder when
\* it was asked, else the cached path
Offered == IF last'.invoked THEN last'.found ELSE path

\* the pathfinder is asked only by a Step of a running autopilot game whose
\* cached path is empty, and by every such Step; no other handler asks it
InvokedOnlyWhenDue ==
    /\ (Ticked /\ last'.invoked) =>
           (config.autopilot /\ ~ end /\ ~ paused /\ path = <<>>)
    /\ (Ticked /\ config.autopilot /\ path # <<>>) => ~ last'.invoked
    /\ (Ticked /\ config.autopilot /\ path = <<>>) => last'.invoked
    /\ (~ Ticked /\ pc' # "hang") => last' \in {last, NoStep}

\* C14 as claimed: the pathfinder is invoked only when due, and every Step
\* of a running autopilot game consumes exactly one direction.
C14_InvokedWhenDueOneConsumed ==
    [][/\ InvokedOnlyWhenDue
       /\ (Ticked /\ config.autopilot) =>
              /\ Len(Offered) = Len(path') + 1
              /\ path' = SubSeq(Offered, 1, Len(Offered) - 1)
              /\ direction' = Offered[Len(Offered)]]_vars

\* C14: the pathfinder is invoked only when due, and every Step of a
\* running autopilot game consumes exactly one direction from the path it
\* has, unless the pathfinder has just returned an empty sequence: then
\* nothing is consumed and the path stays empty.
C14_InvokedWhenDueOneConsumedIfAny ==
    [][/\ InvokedOnlyWhenDue
       /\ (Ticked /\ config.autopilot /\ Offered # <<>>) =>
              /\ Len(Offered) = Len(path') + 1
              /\ path' = SubSeq(Offered, 1, Len(Offered) - 1)
              /\ direction' = Offered[Len(Offered)]
       /\ (Ticked /\ config.autopilot /\ Offered = <<>>) =>
              /\ last'.invoked
              /\ path' = <<>>]_vars

C14_Witness ==
    /\ config.autopilot
    /\ Stepped
    /\ ~ last.invoked
    /\ steps >= 2
    /\ path # <<>>

\* the last tick took its direction from a pathfinder result: a cached
\* route, a fresh route or the one-step fallback
FromRoute == config.autopilot /\ Stepped /\ ~ (last.invoked /\ last.found = <<>>)

\* C15: in autopilot mode a tick whose direction was taken from a pathfinder
\* result moves the head onto a tile that is Free or Food at the moment of
\* the move, and the snake crashes only on a tick for which the pathfinder
\* returned an empty sequence.
C15_RouteCollisionFree ==
    /\ FromRoute => last.tile \in {"Free", "Food"}
    /\ (config.autopilot /\ end) => ReturnedEmpty

\* the last direction of a route cached over three ticks or more is applied
\* and the head reaches the food
C15_Witness ==
    /\ FromRoute
    /\ ~ last.invoked
    /\ last.tile = "Food"
    /\ path = <<>>
    /\ steps >= 3

\* the next Step of the game loop invokes the pathfinder
AboutToInvoke ==
    /\ pc = "recv"
    /\ config.autopilot
    /\ ~ end
    /\ path = <<>>

FoodTiles == {p \in PointsOf(grid) : grid[p[1]][p[2]] = "Food"}

\* C16: at every invocation of the pathfinder by the game loop the grid
\* holds exactly one Food tile, at the point the game loop recorded as food.
C16_OneFoodAtTarget == AboutToInvoke => FoodTiles = {food}

\* the points marked in the closed list
ClosedPoints == {p \in PointsOf(grid) : closed_list[p[1]][p[2]]}

\* the points on the open list
OpenPoints == {open_list[k] : k \in 1 .. Len(open_list)}

\* a step of the model that ran one iteration of solve's main loop
Iterated == Len(popped') = Len(popped) + 1

\* the point that iteration popped
Current == popped'[Len(popped')]

\* C17: a point on the closed list stays closed, is not put on the open
\* list again, is not popped again and keeps its record for the rest of
\* the call.
C17_ClosedNeverRevisited ==
    [][\A p \in ClosedPoints :
          /\ closed_list'[p[1]][p[2]]
          /\ p \in DOMAIN cell_details
          /\ p \in DOMAIN cell_details'
          /\ cell_details'[p] = cell_details[p]
          /\ \A k \in 1 .. Len(open_list') : open_list'[k] # p
          /\ Iterated => Current # p]_vars

\* the point popped last has a traversable closed neighbour that is not
\* its parent: a closed point came up again as a successor
C17_Witness ==
    /\ pc = "loop"
    /\ Len(popped) >= 3
    /\ \E p \in ClosedPoints :
           /\ p \in Adjacent(grid, popped[Len(popped)])
           /\ Traversable(grid, p)
           /\ cell_details[popped[Len(popped)]].parent # Some(p)

\* the f line 87 computes for p as a successor of the popped point
NewF(p) ==
    cell_details[Current].g + 1
        + manhatten_distance(p[1], p[2], target[1], target[2])

\* the record lines 100-103 write for p as a successor of the popped point
NewRecord(p) ==
    [parent |-> Some(Current),
     g |-> cell_details[Current].g + 1,
     h |-> manhatten_distance(p[1], p[2], target[1], target[2]),
     f |-> NewF(p)]

\* C18 as claimed: the record of a point on the open list changes only
\* when the newly computed f is strictly smaller than the recorded f.
C18_UpdatedOnlyWhenStrictlyBetter ==
    [][Iterated =>
          \A p \in OpenPoints \ {Current} :
              cell_details'[p] # cell_details[p] =>
                  /\ p \in Adjacent(grid, Current)
                  /\ NewF(p) < cell_details[p].f]_vars

\* C18: the record of a point on the open list changes only when it is a
\* successor of the popped point and the newly computed f is smaller than
\* or equal to the recorded f; an equal f rewrites the record with the
\* popped point as parent, a larger f leaves it unchanged.
C18_UpdatedUnlessWorse ==
    [][Iterated =>
          \A p \in OpenPoints \ {Current} :
              /\ cell_details'[p] # cell_details[p] =>
                     /\ p \in Adjacent(grid, Current)
                     /\ NewF(p) <= cell_details[p].f
                     /\ cell_details'[p] = NewRecord(p)
              /\ (/\ pc' = "loop"
                  /\ p \in Adjacent(grid, Current)
                  /\ NewF(p) <= cell_details[p].f) =>
                     cell_details'[p] = NewRecord(p)]_vars

\* a point on the open list whose parent was popped after another
\* neighbour that had already recorded it: its record was rewritten
C18_Witness ==
    /\ pc = "loop"
    /\ \E p \in OpenPoints :
         \E i, j \in 1 .. Len(popped) :
           /\ i < j
           /\ popped[i] \in Adjacent(grid, p)
           /\ popped[j] \in Adjacent(grid, p)
           /\ cell_details[p].parent = Some(popped[j])
           /\ cell_details[p].g = cell_details[popped[i]].g + 1

\* C19: at every iteration of the search the open list holds no point
\* twice and holds exactly the points that have a record and are not
\* closed.
C19_OpenListExact ==
    pc = "loop" =>
        /\ NoDuplicates(open_list)
        /\ OpenPoints \cap ClosedPoints = {}
        /\ OpenPoints = DOMAIN cell_details \ ClosedPoints

C19_Witness ==
    /\ pc = "loop"
    /\ Len(open_list) >= 3
    /\ Cardinality(ClosedPoints) >= 2

\* the search has not run an iteration yet
AtStart == pc = "loop" /\ popped = <<>>

CurrentSuccessors == path_generate_successors(Current[1], Current[2], grid)

\* the positions of the for loop after the one that holds the target
AfterTarget ==
    {k \in 1 .. Len(CurrentSuccessors) :
        \E j \in 1 .. k - 1 : CurrentSuccessors[j] = target}

\* the target is a successor of the popped point and is not closed
TargetAhead ==
    /\ \E k \in 1 .. Len(CurrentSuccessors) : CurrentSuccessors[k] = target
    /\ ~ closed_list'[target[1]][target[2]]

\* C21: the first iteration whose popped point has the target as a
\* successor that is not closed ends the search: the target gets a record
\* with the popped point as parent and no costs, it is not put on the open
\* list, the successors after it are neither recorded nor pushed, and the
\* path is reconstructed next; no other iteration ends the search so.
C21_EarlyExit ==
    [][Iterated =>
          /\ TargetAhead <=> pc' = "path"
          /\ target \notin DOMAIN cell_details
          /\ pc' = "path" =>
                /\ cell_details'[target] = [parent |-> Some(Current), g |-> 0, h |-> 0, f |-> 0]
                /\ \A k \in 1 .. Len(open_list') : open_list'[k] # target
                /\ cursor' = target
                /\ \A k \in AfterTarget :
                      LET q == CurrentSuccessors[k]
                      IN  /\ q \in DOMAIN cell_details' <=> q \in DOMAIN cell_details
                          /\ q \in DOMAIN cell_details => cell_details'[q] = cell_details[q]
                          /\ q \in OpenPoints' <=> q \in OpenPoints]_vars

\* the search ended on the target while a later successor of the popped
\* point has no record: it was never examined
C21_Witness ==
    /\ pc = "path"
    /\ Len(popped) >= 2
    /\ LET c == popped[Len(popped)]
           succs == path_generate_successors(c[1], c[2], grid)
       IN  \E j, k \in 1 .. Len(succs) :
              /\ j < k
              /\ succs[j] = target
              /\ succs[k] \notin DOMAIN cell_details

\* C22: an iteration pops the point of the open list whose recorded f is
\* minimal, and among the points of that f the one at the lowest index.
C22_PopsLowestFirst ==
    [][Iterated =>
          \E i \in 1 .. Len(open_list) :
              /\ open_list[i] = Current
              /\ \A k \in 1 .. Len(open_list) :
                    cell_details[open_list[k]].f >= cell_details[Current].f
              /\ \A k \in 1 .. i - 1 :
                    cell_details[open_list[k]].f > cell_details[Current].f]_vars

\* a point that the last iteration did not look at is still on the open
\* list with the f of the popped point: the pop chose among equals
C22_Witness ==
    /\ pc = "loop"
    /\ Len(popped) >= 2
    /\ \E q \in OpenPoints :
          /\ q \notin Adjacent(grid, popped[Len(popped)])
          /\ cell_details[q].f = cell_details[popped[Len(popped)]].f

\* the number of parent links from p back to a record without parent; more
\* than there are records when the links run in a circle
RECURSIVE ParentLinks(_, _, _)
ParentLinks(details, p, fuel) ==
    IF details[p].parent = None THEN 0
    ELSE IF fuel = 0 THEN 1
    ELSE 1 + ParentLinks(details, details[p].parent[1], fuel - 1)

\* the record of p holds the costs of the path its parent links describe
CostsRecorded(p) ==
    /\ cell_details[p].g = ParentLinks(cell_details, p, Cardinality(DOMAIN cell_details))
    /\ cell_details[p].h = Abs(p[1] - target[1]) + Abs(p[2] - target[2])
    /\ cell_details[p].f = cell_details[p].g + cell_details[p].h

C24_OpenListShrinks == [][Iterated => Len(open_list') <= Len(open_list)]_vars

\* C24: an iteration removes one point from the open list and pushes the
\* successors that had no record, so the list can grow by up to three
\* points; what grows in every iteration is the closed set, by the popped
\* point, and no point gets on the open list twice.
C24_ClosedSetGrows ==
    [][Iterated =>
          /\ Len(open_list') >= Len(open_list) - 1
          /\ Len(open_list') <= Len(open_list) + 3
          /\ Current \notin ClosedPoints
          /\ ClosedPoints' = ClosedPoints \cup {Current}
          /\ \A q \in OpenPoints' \ OpenPoints :
                /\ q \notin DOMAIN cell_details
                /\ q \in Adjacent(grid, Current)]_vars

\* the open list is longer than it was one iteration earlier
C24_Witness ==
    /\ pc = "loop"
    /\ Len(popped) >= 2
    /\ Len(open_list) >= 3
    /\ \E q \in OpenPoints :
          \E r \in OpenPoints \ {q} :
             /\ cell_details[q].parent = Some(popped[Len(popped)])
             /\ cell_details[r].parent = Some(popped[Len(popped)])
             /\ \A k \in 1 .. Len(popped) - 1 :
                   popped[k] \notin Adjacent(grid, q) \cup Adjacent(grid, r)

StartOutside == start \notin PointsOf(grid)

C26_RectangularGrids ==
    [][(~ StartOutside /\ Iterated) =>
          /\ pc' # "panic"
          /\ \A q \in TraversableNeighbours(grid, Current) :
                \E k \in 1 .. Len(CurrentSuccessors) : CurrentSuccessors[k] = q]_vars

Apart(a, b) == IF a >= b THEN a - b ELSE b - a

\* C28: manhatten_distance is |x - tx| + |y - ty| on the coordinates of the
\* grid, 0 exactly for equal points and symmetric, also when the target
\* lies below the source in x or y: for the h of every record the search
\* wrote and between every point of the grid and the target.
C28_ManhattanDistance ==
    /\ \A p \in DOMAIN cell_details \ {start, target} :
          /\ cell_details[p].h = Apart(p[1], target[1]) + Apart(p[2], target[2])
          /\ cell_details[p].h = manhatten_distance(target[1], target[2], p[1], p[2])
          /\ cell_details[p].h > 0
    /\ \A p \in PointsOf(grid) :
          \E d \in {manhatten_distance(p[1], p[2], target[1], target[2])} :
             /\ d = Apart(p[1], target[1]) + Apart(p[2], target[2])
             /\ d = manhatten_distance(target[1], target[2], p[1], p[2])
             /\ d = 0 <=> p = target

\* records of points with a larger x, and of points with a larger y, than
\* the target, and of points with a smaller one
C28_Witness ==
    /\ \E p \in DOMAIN cell_details \ {start, target} :
          p[1] > target[1] /\ cell_details[p].h >= 2
    /\ \E p \in DOMAIN cell_details \ {start, target} :
          p[2] > target[2] /\ cell_details[p].h >= 2
    /\ \E p \in DOMAIN cell_details \ {start, target} :
          p[1] < target[1] /\ cell_details[p].h >= 1

\* the points of the grid whose tile is Crash
CrashTiles ==
    IF grid = <<>> THEN {}
    ELSE {p \in PointsOf(grid) : grid[p[1]][p[2]] = "Crash"}

\* C29: the Tile::Crash arm of the game loop is never reached, and the grid
\* holds a Crash tile exactly while the game is ended: from the crashing
\* Step to the restart that rebuilds the grid.
C29_CrashArmUnreachable ==
    /\ pc # "panic"
    /\ ~ end => CrashTiles = {}
    /\ end => Cardinality(CrashTiles) = 1

\* the snake has crashed into itself and the tile it hit is marked
C29_Witness ==
    /\ end
    /\ last.tile = "Snake"
    /\ CrashTiles = {next_point(snake[1], direction)}

\* C30: a Step received while the game is ended or paused changes nothing:
\* not the grid, the snake, the food, the step counter, the direction or
\* the cached path, and the pathfinder is not asked.
C30_StepIgnoredWhenEndedOrPaused ==
    (pc = "recv" /\ (end \/ paused)) => ~ ENABLED (Step /\ vars' # vars)

\* a paused autopilot game whose next Step would ask the pathfinder
C30_Witness ==
    /\ pc = "recv"
    /\ config.autopilot
    /\ paused
    /\ ~ end
    /\ path = <<>>
    /\ steps >= 1
    /\ steps < StepBound
    /\ ENABLED Step

\* the point the head of a tick moved to or ran into
Ahead == next_point(snake[1], direction')

\* C31: a Step onto Food puts the new head in front of the whole snake and
\* spawns the new food on a tile that was Free; a Step onto Free puts the
\* new head in front, drops the old tail and sets its tile to Free; a
\* crashing Step leaves the snake as it is; the length of the snake never
\* decreases within a round.
C31_SnakeGrowth ==
    [][/\ Ticked =>
             /\ last'.tile = grid[Ahead[1]][Ahead[2]]
             /\ last'.tile = "Food" =>
                   /\ snake' = <<Ahead>> \o snake
                   /\ grid[food'[1]][food'[2]] = "Free"
                   /\ grid'[food'[1]][food'[2]] = "Food"
                   /\ food' # Ahead
             /\ last'.tile = "Free" =>
                   /\ snake' = <<Ahead>> \o SubSeq(snake, 1, Len(snake) - 1)
                   /\ grid'[snake[Len(snake)][1]][snake[Len(snake)][2]] = "Free"
                   /\ food' = food
             /\ last'.tile \in {"Obstacle", "Snake"} =>
                   /\ snake' = snake
                   /\ end'
       /\ (~ Ticked /\ pc' # "setup") => Len(snake') >= Len(snake)
       /\ pc' # "setup" => Len(snake') \in {Len(snake), Len(snake) + 1, 2}]_vars

\* the snake has eaten and is one segment longer than spawn_snake made it
C31_Witness ==
    /\ Stepped
    /\ last.tile = "Food"
    /\ Len(snake) = 3
    /\ grid[food[1]][food[2]] = "Food"

\* the points the snake has a segment on
Segments == {snake[k] : k \in 1 .. Len(snake)}

\* a round is being played
Playing == pc = "recv" /\ ~ end

\* C32: while a round is played a tile of the grid is Snake exactly when
\* its point is a segment of the snake, and neither the food nor an
\* obstacle lies on a segment.
C32_SnakeTilesAreSegments ==
    Playing =>
        \A p \in PointsOf(grid) : grid[p[1]][p[2]] = "Snake" <=> p \in Segments

\* C33: the snake has two segments or more, consecutive segments are
\* orthogonal neighbours, no point is a segment twice, and after a move
\* snake_direction is the direction of that move.
C33_SnakeWellFormed ==
    pc = "recv" =>
        /\ Len(snake) >= 2
        /\ \A k \in 1 .. Len(snake) - 1 :
              Abs(snake[k][1] - snake[k + 1][1]) + Abs(snake[k][2] - snake[k + 1][2]) = 1
        /\ Cardinality(Segments) = Len(snake)
        /\ (Stepped /\ last.tile \in {"Free", "Food"}) =>
              snake_direction(snake) = last.applied

\* the obstacles spawn_obstacles placed: those inside the border
PlacedObstacles ==
    {p \in PointsOf(grid) :
        /\ grid[p[1]][p[2]] = "Obstacle"
        /\ p[1] \in 1 .. GridLen(grid) - 2
        /\ p[2] \in 1 .. GridHeight(grid) - 2}

FreeNeighbours(p) == {q \in Adjacent(grid, p) : grid[q[1]][q[2]] = "Free"}

\* the round has been set up with obstacles and no Step has been handled
FreshWithObstacles ==
    /\ pc = "recv"
    /\ ~ config.no_obstacles
    /\ steps = 0
    /\ ~ end

\* C34: after spawn_obstacles every Free tile next to an obstacle it placed
\* has two Free neighbours or more.
C34_NoDeadEnds ==
    FreshWithObstacles =>
        /\ Cardinality(PlacedObstacles) = obstacle_count + 1
        /\ \A p \in PlacedObstacles :
              \A c \in FreeNeighbours(p) : Cardinality(FreeNeighbours(c)) >= 2

\* a Free tile between two placed obstacles that has just two Free
\* neighbours left: a third obstacle next to it was not possible
C34_Witness ==
    /\ FreshWithObstacles
    /\ \E p \in PlacedObstacles :
          \E c \in FreeNeighbours(p) :
             /\ Cardinality(FreeNeighbours(c)) = 2
             /\ Cardinality(Adjacent(grid, c) \cap PlacedObstacles) = 2

(***************************************************************************)
(* snake.rs: the tick interval                                             *)
(***************************************************************************)
\* MIN_INTERVAL (snake.rs 13)
MIN_INTERVAL == 30

\* the exclusive end of the range the command line accepts for --interval
\* (cli.rs 11: range(MIN_INTERVAL..300))
IntervalRangeEnd == 300

\* the number of values of a u16, the type of the interval
U16 == 65536

\* an arithmetic overflow of `i + 5` or `i - 5` on a u16: the process panics
\* where the build checks overflow and the value wraps where it does not
Overflowed == "panic"

\* increase_interval (snake.rs 209-212): the outcomes the build can produce,
\* each the value stored and whether the addition panicked
increase_interval(i) ==
    IF i + 5 < U16
    THEN {[stored |-> i + 5, panicked |-> FALSE]}
    ELSE {[stored |-> (i + 5) % U16, panicked |-> FALSE],
          [stored |-> i, panicked |-> TRUE]}

\* what decrease_interval stores once `i - 5` has the value d
store_if_above_min(i, d) == IF d > MIN_INTERVAL THEN d ELSE i

\* decrease_interval (snake.rs 214-219)
decrease_interval(i) ==
    IF i - 5 >= 0
    THEN {[stored |-> store_if_above_min(i, i - 5), panicked |-> FALSE]}
    ELSE {[stored |-> store_if_above_min(i, (i - 5) % U16), panicked |-> FALSE],
          [stored |-> i, panicked |-> TRUE]}

\* interval.store of one outcome; a panic ends the event loop
StoreInterval(outcomes) ==
    /\ \E o \in outcomes :
          /\ interval' = o.stored
          /\ pc' = IF o.panicked THEN Overflowed ELSE pc
    /\ UNCHANGED <<grid, snake, food, direction, path, end, paused, steps, config,
                   last>>
    /\ UNCHANGED searchVars

\* the default of --interval (cli.rs 11: default_value_t = 175)
DefaultInterval == 175

\* the configured intervals that are explored, out of the range the command
\* line accepts: the lowest ones, where decrease_interval stores nothing or
\* stores once, the default and the highest
ConfiguredIntervals ==
    (MIN_INTERVAL .. MIN_INTERVAL + 6) \cup {DefaultInterval, IntervalRangeEnd - 1}

\* run is started with a Config the command line accepted; the interval is
\* created from config.interval (snake.rs 32)
InitInterval ==
    /\ config \in [arcade : BOOLEAN, interval : ConfiguredIntervals]
    /\ interval = config.interval
    /\ pc = "recv"
    /\ grid = <<>>
    /\ snake = <<>>
    /\ food = <<>>
    /\ direction = "North"
    /\ path = <<>>
    /\ end = FALSE
    /\ paused = FALSE
    /\ steps = 0
    /\ last = <<>>
    /\ start = <<0, 0>>
    /\ target = <<0, 0>>
    /\ cell_details = <<>>
    /\ open_list = <<>>
    /\ closed_list = <<>>
    /\ cursor = None
    /\ result = <<>>
    /\ popped = <<>>
    /\ prev = None
    /\ point = None
    /\ successors = <<>>

\* Input::DecreaseSpeed (snake.rs 98-102)
DecreaseSpeed ==
    /\ pc = "recv"
    /\ StoreInterval(IF ~ config.arcade
                     THEN increase_interval(interval)
                     ELSE {[stored |-> interval, panicked |-> FALSE]})

\* Input::IncreaseSpeed (snake.rs 103-107)
IncreaseSpeed ==
    /\ pc = "recv"
    /\ StoreInterval(IF ~ config.arcade
                     THEN decrease_interval(interval)
                     ELSE {[stored |-> interval, panicked |-> FALSE]})

\* the Food arm of Input::Step as far as the interval goes (snake.rs 146-150):
\* every food eaten speeds an arcade game up
FoodEaten ==
    /\ pc = "recv"
    /\ StoreInterval(IF config.arcade
                     THEN decrease_interval(interval)
                     ELSE {[stored |-> interval, panicked |-> FALSE]})

\* Input::Pause after the round has ended (snake.rs 77): the restart stores
\* the configured interval again
RestartInterval ==
    /\ pc = "recv"
    /\ StoreInterval({[stored |-> config.interval, panicked |-> FALSE]})

NextInterval == DecreaseSpeed \/ IncreaseSpeed \/ FoodEaten \/ RestartInterval

SpecInterval == InitInterval /\ [][NextInterval]_vars

\* C35: started from a configured interval of 30 to 299, whatever speed
\* inputs (normal mode) or eaten food (arcade mode) follow, the interval
\* never falls below MIN_INTERVAL, the subtraction of decrease_interval never
\* underflows and no step panics; in arcade mode the interval is only ever
\* lowered from the configured one.
C35_IntervalNeverBelowMin ==
    /\ interval >= MIN_INTERVAL
    /\ interval - 5 >= 0
    /\ pc # Overflowed
    /\ config.arcade => interval <= config.interval

====
